---- MODULE Spec2Model ----
(***************************************************************************)
(* Model of the tour orchestration engine of react-guided-tour:            *)
(* TourEngine (src/src/core/TourEngine.ts) and its persistence store       *)
(* TourStorage (src/src/core/TourActions.ts, third section of the file).   *)
(*                                                                         *)
(* Every public operation of the engine is one action; the caller awaits   *)
(* each operation before issuing the next one.  A hook (beforeStep,        *)
(* afterStep, onStepChange, onSkip, onComplete) either returns or throws;  *)
(* which of the two is an input of the operation.  FlightSpec drops the    *)
(* first assumption: there the calls overlap and each await is a step.     *)
(* The element wait, the action dispatcher, the popover placement, the     *)
(* subscription and the React binding have specifications of their own.    *)
(***************************************************************************)
EXTENDS Integers, Sequences, FiniteSets, TLC

\* Largest number of steps of a tour definition.
MaxSteps == 2

\* Largest number of steps of the tours walked through from start to end by
\* start, next, next, ... alone.
MaxScenarioSteps == 3

\* Largest number of steps of the tours whose progress is saved by goToStep
\* and read back by a new engine.
MaxRoundTripSteps == 3

\* The delay of the actions that declare one (action.delay), in milliseconds.
MaxDelay == 2

\* The longest timeout of an element wait (step.waitTimeout), in ticks of the
\* clock.
WaitTicks == 3

\* The most engine calls suspended at the same time.
MaxFlights == 2

VARIABLES
  config,     \* TourEngine.config: the definition the live engine was built with
  state,      \* TourEngine.state: the engine's TourState
  storage,    \* the localStorage item under the tour's key (Null: no item)
  emitted,    \* events other than state-change emitted by the last operation
  lastOp,     \* the last operation called, its inputs and how it settled
  observed,   \* what a listener attached at construction saw of start, next, next, ...
  subscriber, \* the events the handler of subscribe(cb) listens to, and what cb
              \* was called with during the last operation
  dom,        \* document.querySelector(selector) finds an element
  dispatcher, \* TourActions: its registry, and the last action executed with its result
  popover,    \* the arguments of the last calculatePopoverPosition call and its result
  elementWait, \* the promise, observer and timer of the last waitForElement call
  inflight,   \* the engine calls suspended at an await, in the order they began
  binding     \* the last 'next' intent made through useTourEngine

engine == <<config, state, storage, emitted, lastOp, observed, subscriber>>

\* What the operations of the engine, run to the point where they settle,
\* leave alone.
aside == <<dom, elementWait, dispatcher, popover, inflight, binding>>

vars == <<engine, aside>>

-----------------------------------------------------------------------------
(* Values *)

\* JavaScript null.
Null == [null |-> TRUE]

\* JavaScript undefined (an optional timestamp that is not set).
Undefined == "undefined"

\* new Date().toISOString()
Timestamp == "timestamp"

\* state.error when no error is recorded.
NoError == "null"

\* A localStorage whose every access throws (private browsing, quota).
Unavailable == [unavailable |-> TRUE]

\* step.waitTimeout || 5000, in milliseconds
DefaultWaitTimeout == 5000

InvalidIndexError == "Invalid step index"
NoCurrentStepError == "No current step available for next operation"
HookError == "hook error"
StorageError == "storage error"
WaitError == "Element not found"

\* config.steps[i]: the steps of a definition have unique identifiers; step i
\* is identified by its position.
StepAt(i) == [id |-> i]

\* The tour definitions: n steps, storage.remember set or not.
Configs == [n : 1..MaxSteps, remember : BOOLEAN]

\* What the hooks of one operation do: TRUE means the hook throws (or its
\* promise rejects).  elementMissing: the step declares waitForElement and its
\* target never appears before the timeout.
Hooks ==
  [beforeStep : BOOLEAN, afterStep : BOOLEAN, onStepChange : BOOLEAN,
   lifecycle : BOOLEAN, elementMissing : BOOLEAN]

NoThrow ==
  [beforeStep |-> FALSE, afterStep |-> FALSE, onStepChange |-> FALSE,
   lifecycle |-> FALSE, elementMissing |-> FALSE]

StepHookThrows(h) == h.beforeStep \/ h.afterStep \/ h.onStepChange

\* { ...a, ...b }
Merge(a, b) ==
  [k \in (DOMAIN a) \cup (DOMAIN b) |-> IF k \in DOMAIN b THEN b[k] ELSE a[k]]

\* saved?.field || default
Field(saved, k, default) == IF k \in DOMAIN saved THEN saved[k] ELSE default

Includes(seq, x) == \E i \in 1..Len(seq) : seq[i] = x

-----------------------------------------------------------------------------
(* TourStorage *)

\* Mutation of saveState: the step index is left out of the saved item.
StorageSaveStateNoIndex(ls, st) ==
  [completedSteps |-> st.completedSteps,
   skippedSteps |-> st.skippedSteps,
   isCompleted |-> FALSE,
   isSkipped |-> FALSE]

\* Every method of TourStorage wraps its localStorage accesses in try/catch
\* and logs: on an unavailable store a write does nothing and a read gives
\* null.
StorageSaveState(ls, st) ==
  IF ls = Unavailable
  THEN ls
  ELSE [currentStepIndex |-> st.currentStepIndex,
        completedSteps |-> st.completedSteps,
        skippedSteps |-> st.skippedSteps,
        isCompleted |-> FALSE,
        isSkipped |-> FALSE]

StorageGetState(ls) == IF ls = Unavailable THEN Null ELSE ls

StorageClearState(ls) == IF ls = Unavailable THEN ls ELSE Null

StorageSaveCompletion(ls) ==
  LET existing == IF StorageGetState(ls) = Null THEN <<>> ELSE StorageGetState(ls)
  IN  IF ls = Unavailable
      THEN ls
      ELSE Merge(existing, [isCompleted |-> TRUE, completedAt |-> Timestamp])

StorageSaveSkip(ls) ==
  LET existing == IF StorageGetState(ls) = Null THEN <<>> ELSE StorageGetState(ls)
  IN  IF ls = Unavailable
      THEN ls
      ELSE Merge(existing, [isSkipped |-> TRUE, skippedAt |-> Timestamp])

StorageIsCompleted(ls) == Field(StorageGetState(ls), "isCompleted", FALSE) = TRUE

StorageIsSkipped(ls) == Field(StorageGetState(ls), "isSkipped", FALSE) = TRUE

-----------------------------------------------------------------------------
(* TourEngine: helpers.  A world w is [state, storage, emitted, elapsed,  *)
(* listening, received, calls].                                            *)

initializeState(cfg, ls) ==
  LET savedState == IF cfg.remember THEN StorageGetState(ls) ELSE Null
  IN  [isRunning |-> FALSE,
       currentStepIndex |-> Field(savedState, "currentStepIndex", 0),
       currentStep |-> Null,
       totalSteps |-> cfg.n,
       isLoading |-> FALSE,
       error |-> NoError,
       completedSteps |-> Field(savedState, "completedSteps", <<>>),
       skippedSteps |-> Field(savedState, "skippedSteps", <<>>),
       isCompleted |-> Field(savedState, "isCompleted", FALSE),
       isSkipped |-> Field(savedState, "isSkipped", FALSE),
       completedAt |-> Field(savedState, "completedAt", Undefined),
       skippedAt |-> Field(savedState, "skippedAt", Undefined)]

\* The keys of TourEngineEvents.
EventTypes ==
  {"step-change", "tour-start", "tour-complete", "tour-skip", "error",
   "state-change"}

\* on(event, handler) and off(event, handler) for the handler of subscribe:
\* `listening` is the set of events whose listener set holds the handler.
engineOn(listening, event) == listening \cup {event}

engineOff(listening, event) == listening \ {event}

subscribe(listening) ==
  engineOn(engineOn(engineOn(engineOn(engineOn(engineOn(listening, "step-change"), "tour-start"), "tour-complete"),
           "tour-skip"), "error"), "state-change")

\* Mutation of the function subscribe returns: the state-change listener
\* stays.
unsubscribeKeepsStateChange(listening) ==
  engineOff(engineOff(engineOff(engineOff(engineOff(listening, "step-change"), "tour-start"),
              "tour-complete"), "tour-skip"), "error")

\* The function subscribe returns.
unsubscribe(listening) ==
  engineOff(engineOff(engineOff(engineOff(engineOff(engineOff(listening, "step-change"), "tour-start"),
                  "tour-complete"), "tour-skip"), "error"), "state-change")

\* emit(event, data) reaching the handler of subscribe, which calls
\* callback(this.getState()): a copy of the state at that moment.  The record
\* of the call also keeps what the callback finds around it at that moment:
\* the event's data, the localStorage item, the hooks the operation has
\* called so far and the time it has spent waiting for an element.
handler(w, event) ==
  IF event[1] \in w.listening
  THEN [w EXCEPT !.received =
          Append(@, [event |-> event[1], data |-> event, state |-> w.state,
                     storage |-> w.storage, calls |-> w.calls,
                     elapsed |-> w.elapsed])]
  ELSE w

setState(w, updates) ==
  handler([w EXCEPT !.state = Merge(w.state, updates)], <<"state-change">>)

emit(w, event) == handler([w EXCEPT !.emitted = Append(@, event)], event)

\* A hook of the configuration or of a step is called.
call(w, hook) == [w EXCEPT !.calls = Append(@, hook)]

handleError(w, message) ==
  LET w1 == setState(w, [error |-> message, isLoading |-> FALSE])
  IN  emit(w1, <<"error", message, w1.state.currentStepIndex>>)

\* Mutation of markStepCompleted: the includes test is missing.
markStepCompletedAgain(w, stepId) ==
  setState(w, [completedSteps |-> Append(w.state.completedSteps, stepId)])

markStepCompleted(w, stepId) ==
  IF ~Includes(w.state.completedSteps, stepId)
  THEN setState(w, [completedSteps |-> Append(w.state.completedSteps, stepId)])
  ELSE w

markStepSkipped(w, stepId) ==
  IF ~Includes(w.state.skippedSteps, stepId)
  THEN setState(w, [skippedSteps |-> Append(w.state.skippedSteps, stepId)])
  ELSE w

Resolved(w) == [w |-> w, outcome |-> "resolved", error |-> NoError]

Rejected(w, message) == [w |-> w, outcome |-> "rejected", error |-> message]

NoOp(w) == [w |-> w, outcome |-> "noop", error |-> NoError]

-----------------------------------------------------------------------------
(* TourEngine: the operations, each run to the point where its promise       *)
(* settles.  Each returns [w, outcome, error].                               *)

\* waitForElement(selector, timeout): resolves at once when the element is
\* there; when it never appears the timer rejects after `timeout` ms.
waitForElement(w, missing, timeout) ==
  IF missing
  THEN Rejected([w EXCEPT !.elapsed = @ + timeout], WaitError)
  ELSE Resolved(w)

\* Mutation of goToStep: a saveState that fails is not caught where it is
\* called and reaches the outer catch.
goToStepStorageThrows(w, cfg, index, h) ==
  IF index < 0 \/ index >= w.state.totalSteps
  THEN Rejected(w, InvalidIndexError)
  ELSE
    LET w1 == setState(w, [isLoading |-> TRUE])
        w2 == setState(w1, [currentStepIndex |-> index,
                            currentStep |-> StepAt(index),
                            isLoading |-> FALSE])
        w3 == IF cfg.remember
              THEN [w2 EXCEPT !.storage = StorageSaveState(@, w2.state)]
              ELSE w2
    IN  IF cfg.remember /\ w2.storage = Unavailable
        THEN Rejected(handleError(w2, StorageError), StorageError)
        ELSE Resolved(emit(w3, <<"step-change", index>>))

\* Mutation of goToStep: the timeout of waitForElement is not caught where it
\* is awaited and reaches the outer catch.
goToStepWaitAborts(w, cfg, index, h) ==
  IF index < 0 \/ index >= w.state.totalSteps
  THEN Rejected(w, InvalidIndexError)
  ELSE
    LET w1 == setState(w, [isLoading |-> TRUE])
        wait == waitForElement(w1, h.elementMissing,
                               Field(StepAt(index), "waitTimeout", DefaultWaitTimeout))
        w2 == setState(wait.w, [currentStepIndex |-> index,
                                currentStep |-> StepAt(index),
                                isLoading |-> FALSE])
        w3 == IF cfg.remember
              THEN [w2 EXCEPT !.storage = StorageSaveState(@, w2.state)]
              ELSE w2
    IN  IF wait.outcome = "rejected"
        THEN Rejected(handleError(setState(wait.w, [isLoading |-> FALSE]), WaitError),
                      WaitError)
        ELSE Resolved(emit(w3, <<"step-change", index>>))

\* Mutation of goToStep: a throwing beforeStep or onStepChange hook reaches
\* the outer catch and aborts the step entry instead of being caught at the
\* call site.
goToStepHookAborts(w, cfg, index, h) ==
  IF index < 0 \/ index >= w.state.totalSteps
  THEN Rejected(w, InvalidIndexError)
  ELSE
    LET w1 == setState(w, [isLoading |-> TRUE])
        w2 == setState(w1, [currentStepIndex |-> index,
                            currentStep |-> StepAt(index),
                            isLoading |-> FALSE])
        w3 == IF cfg.remember
              THEN [w2 EXCEPT !.storage = StorageSaveState(@, w2.state)]
              ELSE w2
        w4 == emit(w3, <<"step-change", index>>)
    IN  IF h.beforeStep
        THEN Rejected(handleError(setState(w1, [isLoading |-> FALSE]), HookError),
                      HookError)
        ELSE IF h.onStepChange
        THEN Rejected(handleError(setState(w4, [isLoading |-> FALSE]), HookError),
                      HookError)
        ELSE Resolved(w4)

\* Mutation of goToStep: the index test sits inside the try block, so an
\* invalid index passes through setState, the outer catch and handleError.
goToStepChecksInsideTry(w, cfg, index, h) ==
  IF index < 0 \/ index >= w.state.totalSteps
  THEN LET w1 == setState(w, [isLoading |-> TRUE])
           w2 == setState(w1, [isLoading |-> FALSE])
       IN  Rejected(handleError(w2, InvalidIndexError), InvalidIndexError)
  ELSE
    LET w1 == setState(w, [isLoading |-> TRUE])
        w2 == setState(w1, [currentStepIndex |-> index,
                            currentStep |-> StepAt(index),
                            isLoading |-> FALSE])
        w3 == IF cfg.remember
              THEN [w2 EXCEPT !.storage = StorageSaveState(@, w2.state)]
              ELSE w2
    IN  Resolved(emit(w3, <<"step-change", index>>))

\* Mutation of goToStep: the step that is left is marked completed.
goToStepMarksCompleted(w, cfg, index, h) ==
  IF index < 0 \/ index >= w.state.totalSteps
  THEN Rejected(w, InvalidIndexError)
  ELSE
    LET w0 == IF w.state.currentStep # Null
              THEN markStepCompleted(w, w.state.currentStep.id)
              ELSE w
        w1 == setState(w0, [isLoading |-> TRUE])
        w2 == setState(w1, [currentStepIndex |-> index,
                            currentStep |-> StepAt(index),
                            isLoading |-> FALSE])
        w3 == IF cfg.remember
              THEN [w2 EXCEPT !.storage = StorageSaveState(@, w2.state)]
              ELSE w2
    IN  Resolved(emit(w3, <<"step-change", index>>))

\* Mutation of goToStep: step-change is emitted before the state is
\* persisted.
goToStepEmitsBeforeSave(w, cfg, index, h) ==
  IF index < 0 \/ index >= w.state.totalSteps
  THEN Rejected(w, InvalidIndexError)
  ELSE
    LET w1 == call(setState(w, [isLoading |-> TRUE]), "beforeStep")
        afterWait == waitForElement(w1, h.elementMissing,
                                    Field(StepAt(index), "waitTimeout",
                                          DefaultWaitTimeout)).w
        w2 == setState(afterWait, [currentStepIndex |-> index,
                                   currentStep |-> StepAt(index),
                                   isLoading |-> FALSE])
        w3 == emit(w2, <<"step-change", index>>)
        w4 == IF cfg.remember
              THEN [w3 EXCEPT !.storage = StorageSaveState(@, w3.state)]
              ELSE w3
    IN  Resolved(call(w4, "onStepChange"))

goToStep(w, cfg, index, h) ==
  IF index < 0 \/ index >= w.state.totalSteps
  THEN \* thrown before the try block: no state change, no error event here
       Rejected(w, InvalidIndexError)
  ELSE
    LET w1 == setState(w, [isLoading |-> TRUE])
        \* try { await step.beforeStep() } catch { console.warn }
        afterBefore == call(w1, "beforeStep")
        \* try { await this.waitForElement(...) } catch { console.warn }
        afterWait == waitForElement(afterBefore, h.elementMissing,
                                    Field(StepAt(index), "waitTimeout",
                                          DefaultWaitTimeout)).w
        w2 == setState(afterWait, [currentStepIndex |-> index,
                                   currentStep |-> StepAt(index),
                                   isLoading |-> FALSE])
        w3 == IF cfg.remember
              THEN [w2 EXCEPT !.storage = StorageSaveState(@, w2.state)]
              ELSE w2
        w4 == emit(w3, <<"step-change", index>>)
        \* try { this.config.onStepChange(step, index) } catch { console.warn }
        afterChange == call(w4, "onStepChange")
    IN  Resolved(afterChange)

\* Mutation of start: the tour-start event is not emitted.
startSilent(w, cfg, h) ==
  LET w1 == setState(w, [isRunning |-> TRUE, isLoading |-> TRUE, error |-> NoError])
      r  == goToStep(w1, cfg, w1.state.currentStepIndex, h)
  IN  IF r.outcome = "rejected"
      THEN Rejected(setState(handleError(r.w, r.error),
                             [isRunning |-> FALSE, isLoading |-> FALSE]),
                    r.error)
      ELSE r

start(w, cfg, h) ==
  LET w1 == setState(w, [isRunning |-> TRUE, isLoading |-> TRUE, error |-> NoError])
      w2 == emit(w1, <<"tour-start">>)
      r  == goToStep(w2, cfg, w2.state.currentStepIndex, h)
  IN  IF r.outcome = "rejected"
      THEN Rejected(setState(handleError(r.w, r.error),
                             [isRunning |-> FALSE, isLoading |-> FALSE]),
                    r.error)
      ELSE r

complete(w, cfg, h) ==
  LET w1 == setState(w, [isRunning |-> FALSE, isCompleted |-> TRUE])
      w2 == call(emit(w1, <<"tour-complete">>), "onComplete")
  IN  IF h.lifecycle
      THEN \* onComplete throws: the catch block runs, saveCompletion does not
           Resolved(handleError(w2, HookError))
      ELSE IF cfg.remember
      THEN Resolved([w2 EXCEPT !.storage = StorageSaveCompletion(@)])
      ELSE Resolved(w2)

stop(w) == Resolved(setState(w, [isRunning |-> FALSE, currentStep |-> Null]))

\* Mutation of next: the last-step test is off by one (> for >=), so next()
\* on the last step tries to enter a step past the end.
nextOffByOne(w, cfg, h) ==
  IF ~w.state.isRunning
  THEN NoOp(w)
  ELSE
    LET currentStep == w.state.currentStep
    IN  IF currentStep = Null
        THEN Rejected(handleError(w, NoCurrentStepError), NoCurrentStepError)
        ELSE
          LET w1 == markStepCompleted(w, currentStep.id)
          IN  IF w1.state.currentStepIndex > w1.state.totalSteps - 1
              THEN complete(w1, cfg, h)
              ELSE
                LET r == goToStep(w1, cfg, w1.state.currentStepIndex + 1, h)
                IN  IF r.outcome = "rejected"
                    THEN Rejected(handleError(r.w, r.error), r.error)
                    ELSE r

next(w, cfg, h) ==
  IF ~w.state.isRunning
  THEN NoOp(w)
  ELSE
    LET currentStep == w.state.currentStep
    IN  IF currentStep = Null
        THEN Rejected(handleError(w, NoCurrentStepError), NoCurrentStepError)
        ELSE
          LET \* try { await currentStep.afterStep() } catch { console.warn }
              afterAfter == call(w, "afterStep")
              w1 == markStepCompleted(afterAfter, currentStep.id)
          IN  IF w1.state.currentStepIndex >= w1.state.totalSteps - 1
              THEN complete(w1, cfg, h)
              ELSE
                LET r == goToStep(w1, cfg, w1.state.currentStepIndex + 1, h)
                IN  IF r.outcome = "rejected"
                    THEN Rejected(handleError(r.w, r.error), r.error)
                    ELSE r

\* Mutation of previous: the isRunning half of the guard is missing.
previousWhenStopped(w, cfg, h) ==
  IF w.state.currentStepIndex <= 0
  THEN NoOp(w)
  ELSE
    LET r == goToStep(w, cfg, w.state.currentStepIndex - 1, h)
    IN  IF r.outcome = "rejected"
        THEN Resolved(handleError(r.w, r.error))
        ELSE r

previous(w, cfg, h) ==
  IF ~w.state.isRunning \/ w.state.currentStepIndex <= 0
  THEN NoOp(w)
  ELSE
    LET r == goToStep(w, cfg, w.state.currentStepIndex - 1, h)
    IN  IF r.outcome = "rejected"
        THEN \* caught, reported, not rethrown
             Resolved(handleError(r.w, r.error))
        ELSE r

skip(w, cfg, h) ==
  IF ~w.state.isRunning
  THEN NoOp(w)
  ELSE
    LET currentStep == w.state.currentStep
        w1 == IF currentStep # Null THEN markStepSkipped(w, currentStep.id) ELSE w
        w2 == setState(w1, [isSkipped |-> TRUE])
        w3 == call(emit(w2, <<"tour-skip", w2.state.currentStepIndex>>), "onSkip")
    IN  IF h.lifecycle
        THEN \* onSkip throws: the catch block runs, saveSkip and stop do not
             Resolved(handleError(w3, HookError))
        ELSE
          LET w4 == IF cfg.remember
                    THEN [w3 EXCEPT !.storage = StorageSaveSkip(@)]
                    ELSE w3
          IN  stop(w4)

\* Mutation of shouldShowTour: a skipped tour is offered again.
shouldShowTourIgnoresSkip(cfg, ls) ==
  IF ~cfg.remember
  THEN TRUE
  ELSE ~StorageIsCompleted(ls)

shouldShowTour(cfg, ls) ==
  IF ~cfg.remember
  THEN TRUE
  ELSE ~StorageIsCompleted(ls) /\ ~StorageIsSkipped(ls)

\* Mutation of resetTourState: the persisted snapshot is not cleared before
\* the state is initialised again.
resetTourStateKeepsSnapshot(w, cfg) ==
  Resolved([w EXCEPT !.state = initializeState(cfg, w.storage)])

resetTourState(w, cfg) ==
  LET ls == IF cfg.remember THEN StorageClearState(w.storage) ELSE w.storage
  IN  Resolved([w EXCEPT !.storage = ls, !.state = initializeState(cfg, ls)])

-----------------------------------------------------------------------------
(* The state machine *)

World ==
  [state |-> state, storage |-> storage, emitted |-> <<>>, elapsed |-> 0,
   listening |-> subscriber.listening, received |-> <<>>, calls |-> <<>>]

\* The hook inputs in which only the hooks named in `called` may throw.
HooksOf(called) == {h \in Hooks : \A k \in (DOMAIN h) \ called : ~h[k]}

Emitted(events, type) == \E i \in 1..Len(events) : events[i][1] = type

\* The record of a call: the operation, the index given to goToStep (0 for
\* the others), how the promise settled, whether a step hook of the call was
\* set to throw, whether onSkip / onComplete was called and threw, whether
\* the step's awaited element was missing, and the time spent waiting for it.
Op(name, index, h, r) ==
  [name |-> name, index |-> index, outcome |-> r.outcome,
   stepHookThrew |-> (StepHookThrows(h) /\ r.outcome # "noop"),
   lifecycleThrew |-> (/\ h.lifecycle
                       /\ \/ Emitted(r.w.emitted, "tour-complete")
                          \/ Emitted(r.w.emitted, "tour-skip")),
   elementMissing |-> h.elementMissing,
   waited |-> r.w.elapsed,
   calls |-> r.w.calls]

NotTracking ==
  [tracking |-> FALSE, started |-> FALSE, nexts |-> 0, indices |-> <<>>,
   events |-> <<>>, lifecycleThrew |-> FALSE]

\* The listener of an engine that restored no snapshot at construction.
Fresh == [NotTracking EXCEPT !.tracking = TRUE]

\* The listener's record after start(): it follows the run start, next, next,
\* ... up to totalSteps calls of next, and gives up on any other call.
ObserveStart(r) ==
  IF observed.tracking /\ ~observed.started
  THEN [observed EXCEPT !.started = TRUE,
                        !.indices = <<r.w.state.currentStepIndex>>,
                        !.events = r.w.emitted]
  ELSE NotTracking

ObserveNext(r, h) ==
  IF observed.tracking /\ observed.started /\ observed.nexts < state.totalSteps
  THEN [observed EXCEPT !.nexts = @ + 1,
                        !.indices = Append(@, r.w.state.currentStepIndex),
                        !.events = @ \o r.w.emitted,
                        !.lifecycleThrew = @ \/ (h.lifecycle /\ r.w.state.isCompleted)]
  ELSE NotTracking

SettleEngine(r) ==
  /\ state' = r.w.state
  /\ storage' = r.w.storage
  /\ emitted' = r.w.emitted
  /\ subscriber' = [subscriber EXCEPT !.received = r.w.received]
  /\ UNCHANGED config

Settle(r) == SettleEngine(r) /\ UNCHANGED aside

\* No subscribe(cb) was made, or its unsubscribe function was called.
NoSubscriber == [listening |-> {}, received |-> <<>>]

\* No element wait was made yet.
NoWait ==
  [phase |-> "none", observer |-> FALSE, timer |-> FALSE, timeout |-> 0,
   clock |-> 0, stopped |-> FALSE]

\* new TourActions(): nothing registered, nothing executed.
NoExecution == [null |-> TRUE]

NewTourActions ==
  [integrations |-> <<>>, registered |-> <<>>, action |-> NoExecution,
   result |-> NoExecution]

\* calculatePopoverPosition was not called.
NoPopover == [null |-> TRUE]

\* No call of the engine is suspended.
NoFlights ==
  [flights |-> <<>>, lastStarted |-> -1, lastSettled |-> -1,
   stopped |-> FALSE, changedAfterStop |-> FALSE]

\* No 'next' intent was made through useTourEngine.
NoIntent == [null |-> TRUE]

AtRest ==
  /\ dom = FALSE
  /\ elementWait = NoWait
  /\ dispatcher = NewTourActions
  /\ popover = NoPopover
  /\ inflight = NoFlights
  /\ binding = NoIntent

\* The first engine of a browser whose localStorage is ls (Null: it holds
\* nothing yet).
EngineInit(cfgs, ls) ==
  /\ config \in cfgs
  /\ storage = ls
  /\ state = initializeState(config, storage)
  /\ emitted = <<>>
  /\ subscriber = NoSubscriber
  /\ lastOp = Op("construct", 0, NoThrow, Resolved(World))
  /\ observed = Fresh

InitFrom(cfgs, ls) == EngineInit(cfgs, ls) /\ AtRest

InitWith(cfgs) == InitFrom(cfgs, Null)

Init == InitWith(Configs)

\* new TourEngine(config): the page is loaded again, or the host re-renders
\* with another step list (useTourEngine builds a new engine whenever the
\* config object changes); the localStorage item stays.
ConstructWith(cfgs) ==
  \E cfg \in cfgs :
    /\ config' = cfg
    /\ state' = initializeState(cfg, storage)
    /\ UNCHANGED storage
    /\ emitted' = <<>>
    /\ subscriber' = NoSubscriber
    /\ lastOp' = Op("construct", 0, NoThrow, Resolved(World))
    /\ observed' = IF cfg.remember /\ StorageGetState(storage) # Null
                   THEN NotTracking
                   ELSE Fresh
    /\ UNCHANGED aside

Construct == ConstructWith({c \in Configs : c.remember = config.remember})

\* new TourEngine(config) with the definition and storage key of the engine
\* before: the page is loaded again.
Reload == ConstructWith({config})

Start ==
  \E h \in HooksOf({"beforeStep", "onStepChange"}) :
    LET r == start(World, config, h)
    IN  /\ Settle(r)
        /\ lastOp' = Op("start", 0, h, r)
        /\ observed' = ObserveStart(r)

Next ==
  \E h \in HooksOf({"beforeStep", "afterStep", "onStepChange", "lifecycle"}) :
    LET r == next(World, config, h)
    IN  /\ Settle(r)
        /\ lastOp' = Op("next", 0, h, r)
        /\ observed' = ObserveNext(r, h)

Previous ==
  \E h \in HooksOf({"beforeStep", "onStepChange"}) :
    LET r == previous(World, config, h)
    IN  /\ Settle(r)
        /\ lastOp' = Op("previous", 0, h, r)
        /\ observed' = NotTracking

GoToStepIn(indices) ==
  \E index \in indices :
    \E h \in IF index < 0 \/ index >= state.totalSteps
             THEN {NoThrow}
             ELSE HooksOf({"beforeStep", "onStepChange", "elementMissing"}) :
      LET r == goToStep(World, config, index, h)
      IN  /\ Settle(r)
          /\ lastOp' = Op("goToStep", index, h, r)
          /\ observed' = NotTracking

GoToStep == GoToStepIn(-1..MaxSteps)

Skip ==
  \E h \in HooksOf({"lifecycle"}) :
    LET r == skip(World, config, h)
    IN  /\ Settle(r)
        /\ lastOp' = Op("skip", 0, h, r)
        /\ observed' = NotTracking

Complete ==
  \E h \in HooksOf({"lifecycle"}) :
    LET r == complete(World, config, h)
    IN  /\ Settle(r)
        /\ lastOp' = Op("complete", 0, h, r)
        /\ observed' = NotTracking

Stop ==
  LET r == stop(World)
  IN  /\ Settle(r)
      /\ lastOp' = Op("stop", 0, NoThrow, r)
      /\ observed' = NotTracking

ResetTourState ==
  LET r == resetTourState(World, config)
  IN  /\ Settle(r)
      /\ lastOp' = Op("resetTourState", 0, NoThrow, r)
      /\ observed' = NotTracking

Transition ==
  \/ Construct
  \/ Start
  \/ Next
  \/ Previous
  \/ GoToStep
  \/ Skip
  \/ Complete
  \/ Stop
  \/ ResetTourState

Spec == Init /\ [][Transition]_vars

\* subscribe(cb) on an engine with no subscription of cb.
Subscribe ==
  /\ subscriber.listening = {}
  /\ subscriber' = [listening |-> subscribe(subscriber.listening),
                    received |-> <<>>]
  /\ UNCHANGED <<config, state, storage, emitted, lastOp, observed, aside>>

\* The function subscribe(cb) returned is called.
Unsubscribe ==
  /\ subscriber.listening # {}
  /\ subscriber' = [listening |-> unsubscribe(subscriber.listening),
                    received |-> <<>>]
  /\ UNCHANGED <<config, state, storage, emitted, lastOp, observed, aside>>

\* The engine with a subscriber coming and going; storage.remember is off.
SubscriberInit == InitWith({c \in Configs : ~c.remember})

SubscriberTransition ==
  \/ Transition
  \/ Subscribe
  \/ Unsubscribe

SubscriberSpec == SubscriberInit /\ [][SubscriberTransition]_vars

\* The walk through a tour: a first engine, then only start() and next().
ScenarioInit == InitWith([n : 1..MaxScenarioSteps, remember : BOOLEAN])

ScenarioTransition ==
  \/ Start
  \/ Next

ScenarioSpec == ScenarioInit /\ [][ScenarioTransition]_vars

\* Progress saved and read back: a first engine, start() and goToStep(i) for
\* any i, and page loads with the same definition.
RoundTripInit == InitWith([n : 1..MaxRoundTripSteps, remember : BOOLEAN])

RoundTripGoToStep == GoToStepIn(-1..MaxRoundTripSteps)

RoundTripTransition ==
  \/ Reload
  \/ Start
  \/ RoundTripGoToStep

RoundTripSpec == RoundTripInit /\ [][RoundTripTransition]_vars

\* The engine with remember set in a browser whose localStorage throws on
\* every access.
OutageInit == InitFrom({c \in Configs : c.remember}, Unavailable)

OutageSpec == OutageInit /\ [][Transition]_vars

\* The step entries of an engine as a subscriber sees them: subscribe(cb),
\* then start(), next(), previous() and goToStep(i).
ListenerTransition ==
  \/ Subscribe
  \/ Start
  \/ Next
  \/ Previous
  \/ GoToStep

ListenerSpec == Init /\ [][ListenerTransition]_vars

-----------------------------------------------------------------------------
(* waitForElement, step by step: the promise, its MutationObserver and its   *)
(* timer, in a document whose nodes come, go and change.                     *)

\* waitForElement(selector, timeout) is called (by a goToStep whose step
\* declares waitForElement); the wait before it, if any, has settled.
WaitForElement ==
  \E timeout \in 1..WaitTicks :
    /\ elementWait.phase # "pending"
    /\ elementWait' =
         IF dom
         THEN [NoWait EXCEPT !.phase = "resolved", !.timeout = timeout]
         ELSE [NoWait EXCEPT !.phase = "pending", !.timeout = timeout,
                             !.observer = TRUE, !.timer = TRUE]
    /\ UNCHANGED <<engine, dom, dispatcher, popover, inflight, binding>>

\* The callback of the observer: query again; on a match disconnect, clear
\* the timer and resolve.
ObserverCallback(w, found) ==
  IF w.observer /\ found
  THEN [w EXCEPT !.phase = "resolved", !.observer = FALSE, !.timer = FALSE]
  ELSE w

\* A node is added under document.body or removed from it (a childList
\* record, which the observer is registered for); `matches` tells whether the
\* selector finds an element afterwards.
ChildListMutation ==
  \E matches \in BOOLEAN :
    /\ dom' = matches
    /\ elementWait' = ObserverCallback(elementWait, matches)
    /\ UNCHANGED <<engine, dispatcher, popover, inflight, binding>>

\* An attribute (class, id, data-*) of a node in the document changes so that
\* the node now matches the selector.  The observer is registered with
\* { childList: true, subtree: true } only: no record, no callback.
AttributeMutation ==
  /\ ~dom
  /\ dom' = TRUE
  /\ UNCHANGED <<engine, elementWait, dispatcher, popover, inflight, binding>>

Tick ==
  /\ elementWait.timer
  /\ elementWait.clock < elementWait.timeout
  /\ elementWait' = [elementWait EXCEPT !.clock = @ + 1]
  /\ UNCHANGED <<engine, dom, dispatcher, popover, inflight, binding>>

\* The setTimeout callback: disconnect the observer and reject.
TimerFires ==
  /\ elementWait.timer
  /\ elementWait.clock = elementWait.timeout
  /\ elementWait' = [elementWait EXCEPT !.phase = "rejected", !.observer = FALSE,
                          !.timer = FALSE]
  /\ UNCHANGED <<engine, dom, dispatcher, popover, inflight, binding>>

\* stop() (close, dismiss, unmount of the provider) while the wait may still
\* be pending: stop() sets two fields of the state and nothing else.
StopDuringWait ==
  LET r == stop(World)
  IN  /\ SettleEngine(r)
      /\ lastOp' = Op("stop", 0, NoThrow, r)
      /\ observed' = NotTracking
      /\ elementWait' = [elementWait EXCEPT !.stopped = (elementWait.phase = "pending")]
      /\ UNCHANGED <<dom, dispatcher, popover, inflight, binding>>

WaitInit ==
  /\ EngineInit(Configs, Null)
  /\ dom \in BOOLEAN
  /\ elementWait = NoWait
  /\ dispatcher = NewTourActions
  /\ popover = NoPopover
  /\ inflight = NoFlights
  /\ binding = NoIntent

WaitTransition ==
  \/ WaitForElement
  \/ ChildListMutation
  \/ AttributeMutation
  \/ Tick
  \/ TimerFires
  \/ StopDuringWait

WaitSpec == WaitInit /\ [][WaitTransition]_vars

-----------------------------------------------------------------------------
(* TourActions: the registry of integrations and the dispatch of an action.  *)

\* TourAction.type: the built-in types with a default handler, and a type
\* executeDefault does not know.
ActionTypes == {"click", "navigate", "highlight", "custom", "custom-foo"}

\* The types the integrations of the model can claim.
ClaimableTypes == {"click", "custom-foo"}

IntegrationNames == {"a", "b"}

\* An integration: its name, the action types its canHandle accepts, and
\* whether its execute throws.
Integrations ==
  [name : IntegrationNames, claims : SUBSET ClaimableTypes, throws : BOOLEAN]

\* An action: its type, its delay, and whether what its default handler needs
\* is there (click: the target resolves; navigate: a target is given; custom:
\* the handler returns normally).
Actions == [type : ActionTypes, delay : {0, MaxDelay}, ok : BOOLEAN]

\* await this.sleep(300) between scrollIntoView and the click
ClickSettleDelay == 300

IntegrationError == "integration failed"
ClickTargetError == "Click target not found"
NavigateTargetError == "Navigate action requires a target URL"
HandlerError == "handler failed"

\* Map.prototype.set: a new key goes to the end, a key that is there keeps
\* its place and gets the new value.
MapSet(entries, integration) ==
  IF \E i \in 1..Len(entries) : entries[i].name = integration.name
  THEN [i \in 1..Len(entries) |->
          IF entries[i].name = integration.name THEN integration ELSE entries[i]]
  ELSE Append(entries, integration)

MapDelete(entries, name) == SelectSeq(entries, LAMBDA e : e.name # name)

\* The result of a handler: what it did and when (milliseconds since execute
\* was called), and how its promise settled.
Done(effects) == [effects |-> effects, outcome |-> "resolved", error |-> NoError]

Threw(effects, message) ==
  [effects |-> effects, outcome |-> "rejected", error |-> message]

Effect(what, at) == [what |-> what, at |-> at]

\* Mutation of findIntegration: the scan does not stop at the first match.
findIntegrationLast(integrations, action) ==
  LET hits == {i \in 1..Len(integrations) : action.type \in integrations[i].claims}
  IN  IF hits = {}
      THEN Null
      ELSE integrations[CHOOSE i \in hits : \A j \in hits : i >= j]

findIntegration(integrations, action) ==
  LET hits == {i \in 1..Len(integrations) : action.type \in integrations[i].claims}
  IN  IF hits = {}
      THEN Null
      ELSE integrations[CHOOSE i \in hits : \A j \in hits : i <= j]

handleClick(action, now) ==
  IF ~action.ok
  THEN Threw(<<>>, ClickTargetError)
  ELSE Done(<<Effect("click", now + ClickSettleDelay)>>)

handleNavigate(action, now) ==
  IF ~action.ok
  THEN Threw(<<>>, NavigateTargetError)
  ELSE Done(<<Effect("navigate", now)>>)

executeDefault(action, now) ==
  LET delay == action.delay
      t == IF delay > 0 THEN now + delay ELSE now
  IN  CASE action.type = "click" -> handleClick(action, t)
        [] action.type = "navigate" -> handleNavigate(action, t)
        [] action.type = "highlight" -> Done(<<>>)
        [] action.type = "custom" ->
             IF action.ok
             THEN Done(<<Effect("handler", t)>>)
             ELSE Threw(<<Effect("handler", t)>>, HandlerError)
        [] OTHER -> Done(<<Effect("warn", t)>>)

\* The handlers run, in order, and the result of the call.
Executed(ran, r) ==
  [ran |-> ran, effects |-> r.effects, outcome |-> r.outcome, error |-> r.error]

\* Mutation of execute: the failure of the integration is rethrown.
executeRethrows(integrations, action) ==
  LET integration == findIntegration(integrations, action)
  IN  IF integration = Null
      THEN Executed(<<"default">>, executeDefault(action, 0))
      ELSE IF ~integration.throws
      THEN Executed(<<integration.name>>, Done(<<Effect("integration", 0)>>))
      ELSE Executed(<<integration.name>>,
                    Threw(<<Effect("integration", 0)>>, IntegrationError))

execute(integrations, action) ==
  LET integration == findIntegration(integrations, action)
  IN  IF integration = Null
      THEN Executed(<<"default">>, executeDefault(action, 0))
      ELSE IF ~integration.throws
      THEN Executed(<<integration.name>>, Done(<<Effect("integration", 0)>>))
      ELSE \* catch: log, then await this.executeDefault(action, element)
           LET r == executeDefault(action, 0)
           IN  Executed(<<integration.name, "default">>,
                        [r EXCEPT !.effects = <<Effect("integration", 0)>> \o @])

\* registerIntegration(integration); `registered` lists the names in the order
\* in which the integrations now in the registry were registered.
RegisterIntegration ==
  \E integration \in Integrations :
    /\ dispatcher' =
         [integrations |-> MapSet(dispatcher.integrations, integration),
          registered |-> Append(SelectSeq(dispatcher.registered,
                                          LAMBDA n : n # integration.name),
                                integration.name),
          action |-> NoExecution,
          result |-> NoExecution]
    /\ UNCHANGED <<engine, dom, elementWait, popover, inflight, binding>>

UnregisterIntegration ==
  \E name \in IntegrationNames :
    /\ dispatcher' =
         [integrations |-> MapDelete(dispatcher.integrations, name),
          registered |-> SelectSeq(dispatcher.registered, LAMBDA n : n # name),
          action |-> NoExecution,
          result |-> NoExecution]
    /\ UNCHANGED <<engine, dom, elementWait, popover, inflight, binding>>

Execute ==
  \E action \in Actions :
    /\ dispatcher' = [dispatcher EXCEPT
                        !.action = action,
                        !.result = execute(dispatcher.integrations, action)]
    /\ UNCHANGED <<engine, dom, elementWait, popover, inflight, binding>>

ActionsInit == InitFrom({c \in Configs : c.n = 1 /\ ~c.remember}, Null)

ActionsTransition ==
  \/ RegisterIntegration
  \/ UnregisterIntegration
  \/ Execute

ActionsSpec == ActionsInit /\ [][ActionsTransition]_vars

-----------------------------------------------------------------------------
(* utils/positioning: where the popover goes.  Lengths are in pixels; the    *)
(* candidate positions are kept doubled (top2 = 2 * top, left2 = 2 * left)   *)
(* so that the halves of calculatePopoverPosition stay whole numbers.        *)

\* const spacing = 12
Spacing == 12

\* const margin = 16
Margin == 16

Placements == {"top", "bottom", "left", "right", "center"}

\* Width and height of the target element.
TargetSize == 20

\* window.innerWidth and window.innerHeight.
ViewportSize == 200

\* The arguments of a call and what it reads from the window: the target's
\* bounding rectangle (relative to the viewport), the popover's size, the
\* scroll offsets and the preferred placement.
PopoverInputs ==
  [targetTop : {0, 60, 160}, targetLeft : {0, 60, 160},
   popoverWidth : {40, 120, 180}, popoverHeight : {40, 120, 180},
   scrollTop : {0, 30}, scrollLeft : {0, 30},
   preferredPlacement : Placements]

getElementPosition(in) ==
  [top |-> in.targetTop + in.scrollTop,
   left |-> in.targetLeft + in.scrollLeft,
   width |-> TargetSize,
   height |-> TargetSize,
   right |-> in.targetLeft + TargetSize + in.scrollLeft,
   bottom |-> in.targetTop + TargetSize + in.scrollTop]

isPositionInViewport(position, in) ==
  /\ position.left2 >= 2 * (in.scrollLeft + Margin)
  /\ position.left2 + 2 * in.popoverWidth <= 2 * (in.scrollLeft + ViewportSize - Margin)
  /\ position.top2 >= 2 * (in.scrollTop + Margin)
  /\ position.top2 + 2 * in.popoverHeight <= 2 * (in.scrollTop + ViewportSize - Margin)

positions(in) ==
  LET targetPos == getElementPosition(in)
  IN  [top |->
         [top2 |-> 2 * (targetPos.top - in.popoverHeight - Spacing),
          left2 |-> 2 * targetPos.left + (targetPos.width - in.popoverWidth),
          placement |-> "top"],
       bottom |->
         [top2 |-> 2 * (targetPos.bottom + Spacing),
          left2 |-> 2 * targetPos.left + (targetPos.width - in.popoverWidth),
          placement |-> "bottom"],
       left |->
         [top2 |-> 2 * targetPos.top + (targetPos.height - in.popoverHeight),
          left2 |-> 2 * (targetPos.left - in.popoverWidth - Spacing),
          placement |-> "left"],
       right |->
         [top2 |-> 2 * targetPos.top + (targetPos.height - in.popoverHeight),
          left2 |-> 2 * (targetPos.right + Spacing),
          placement |-> "right"],
       center |->
         [top2 |-> 2 * in.scrollTop + (ViewportSize - in.popoverHeight),
          left2 |-> 2 * in.scrollLeft + (ViewportSize - in.popoverWidth),
          placement |-> "center"]]

fallbackOrder == <<"bottom", "top", "right", "left", "center">>

\* Mutation of calculatePopoverPosition: the fallback loop does not skip the
\* placements that do not fit.
calculatePopoverPositionFirstFallback(in) ==
  LET preferred == positions(in)[in.preferredPlacement]
      others == SelectSeq(fallbackOrder, LAMBDA q : q # in.preferredPlacement)
  IN  IF isPositionInViewport(preferred, in)
      THEN preferred
      ELSE positions(in)[others[1]]

calculatePopoverPosition(in) ==
  LET preferred == positions(in)[in.preferredPlacement]
      fitting == SelectSeq(fallbackOrder,
                           LAMBDA q : /\ q # in.preferredPlacement
                                      /\ isPositionInViewport(positions(in)[q], in))
  IN  IF isPositionInViewport(preferred, in)
      THEN preferred
      ELSE IF fitting # <<>>
      THEN positions(in)[fitting[1]]
      ELSE positions(in).center

\* The call on the elements and the window that are there.
CalculatePopoverPosition ==
  /\ popover # NoPopover
  /\ popover.position = NoPopover
  /\ popover' = [popover EXCEPT !.position = calculatePopoverPosition(popover.in)]
  /\ UNCHANGED <<engine, dom, elementWait, dispatcher, inflight, binding>>

\* A target, a popover and a window, before the call.
PositionInit ==
  /\ EngineInit({c \in Configs : c.n = 1 /\ ~c.remember}, Null)
  /\ dom = FALSE
  /\ elementWait = NoWait
  /\ dispatcher = NewTourActions
  /\ popover \in [in : PopoverInputs, position : {NoPopover}]
  /\ inflight = NoFlights
  /\ binding = NoIntent

PositionSpec == PositionInit /\ [][CalculatePopoverPosition]_vars

-----------------------------------------------------------------------------
(* TourEngine with calls in flight.  A call is suspended where its code       *)
(* awaits: next() at currentStep.afterStep(), goToStep() at step.beforeStep() *)
(* and at waitForElement().  Between two awaits a call runs alone; other      *)
(* calls begin and resume while it is suspended.  inflight.flights holds the  *)
(* suspended calls: [pc, index, step] with index the argument of the          *)
(* goToStep the call is in (-1 before it) and step the currentStep next()     *)
(* read before its await.  lastStarted / lastSettled are the arguments of     *)
(* the goToStep begun last and settled last (-1: none); stopped: stop() ran   *)
(* while a goToStep was suspended and no call began since; changedAfterStop:  *)
(* a step-change was emitted after that stop().  The hooks return here; what  *)
(* a throwing hook does to a call is the same with and without other calls in *)
(* flight.                                                                    *)

\* goToStep from its index test to its first await.
goToStepEnter(w, index) == call(setState(w, [isLoading |-> TRUE]), "beforeStep")

\* Mutation of goToStepFinish: the index is left as it was.
goToStepFinishKeepsIndex(w, cfg, index) ==
  LET w2 == setState(w, [currentStep |-> StepAt(index), isLoading |-> FALSE])
      w3 == IF cfg.remember
            THEN [w2 EXCEPT !.storage = StorageSaveState(@, w2.state)]
            ELSE w2
  IN  call(emit(w3, <<"step-change", index>>), "onStepChange")

\* goToStep from the end of its element wait to its return.
goToStepFinish(w, cfg, index) ==
  LET w2 == setState(w, [currentStepIndex |-> index,
                         currentStep |-> StepAt(index),
                         isLoading |-> FALSE])
      w3 == IF cfg.remember
            THEN [w2 EXCEPT !.storage = StorageSaveState(@, w2.state)]
            ELSE w2
  IN  call(emit(w3, <<"step-change", index>>), "onStepChange")

Pending(w) == [w |-> w, outcome |-> "pending", error |-> NoError]

InGoToStep(flight) == flight.pc \in {"beforeStep", "wait"}

Flight(pc, index, step) == [pc |-> pc, index |-> index, step |-> step]

Without(flights, i) ==
  [k \in 1..(Len(flights) - 1) |-> IF k < i THEN flights[k] ELSE flights[k + 1]]

FlightFrame == UNCHANGED <<dom, elementWait, dispatcher, popover, binding>>

\* A call that ran without suspending.
SettleAtOnce(name, index, h, r) ==
  /\ SettleEngine(r)
  /\ lastOp' = Op(name, index, h, r)
  /\ observed' = NotTracking
  /\ UNCHANGED inflight
  /\ FlightFrame

\* A call suspends in goToStep(index).
SuspendInGoToStep(name, index, w) ==
  LET r == Pending(goToStepEnter(w, index))
  IN  /\ SettleEngine(r)
      /\ lastOp' = Op(name, index, NoThrow, r)
      /\ observed' = NotTracking
      /\ inflight' = [inflight EXCEPT
                        !.flights = Append(@, Flight("beforeStep", index, Null)),
                        !.lastStarted = index,
                        !.stopped = FALSE,
                        !.changedAfterStop = FALSE]
      /\ FlightFrame

BeginGoToStep ==
  /\ Len(inflight.flights) < MaxFlights
  /\ \E index \in 0..(state.totalSteps - 1) :
       SuspendInGoToStep("goToStep", index, World)

BeginStart ==
  /\ Len(inflight.flights) < MaxFlights
  /\ IF state.currentStepIndex < state.totalSteps
     THEN LET w1 == setState(World, [isRunning |-> TRUE, isLoading |-> TRUE,
                                     error |-> NoError])
          IN  SuspendInGoToStep("start", state.currentStepIndex,
                                emit(w1, <<"tour-start">>))
     ELSE SettleAtOnce("start", 0, NoThrow, start(World, config, NoThrow))

BeginNext ==
  /\ Len(inflight.flights) < MaxFlights
  /\ IF ~state.isRunning \/ state.currentStep = Null
     THEN SettleAtOnce("next", 0, NoThrow, next(World, config, NoThrow))
     ELSE LET r == Pending(call(World, "afterStep"))
          IN  /\ SettleEngine(r)
              /\ lastOp' = Op("next", 0, NoThrow, r)
              /\ observed' = NotTracking
              /\ inflight' = [inflight EXCEPT
                                !.flights = Append(@, Flight("afterStep", -1,
                                                             state.currentStep)),
                                !.stopped = FALSE,
                                !.changedAfterStop = FALSE]
              /\ FlightFrame

BeginPrevious ==
  /\ Len(inflight.flights) < MaxFlights
  /\ IF ~state.isRunning \/ state.currentStepIndex <= 0
     THEN SettleAtOnce("previous", 0, NoThrow, previous(World, config, NoThrow))
     ELSE SuspendInGoToStep("previous", state.currentStepIndex - 1, World)

\* currentStep.afterStep() of a suspended next() settles: the step is marked
\* completed and the call goes on to complete() or into goToStep.
ResumeAfterStep ==
  \E i \in 1..Len(inflight.flights) :
    LET flight == inflight.flights[i]
        w1 == markStepCompleted(World, flight.step.id)
    IN  /\ flight.pc = "afterStep"
        /\ observed' = NotTracking
        /\ FlightFrame
        /\ IF w1.state.currentStepIndex >= w1.state.totalSteps - 1
           THEN LET r == complete(w1, config, NoThrow)
                IN  /\ SettleEngine(r)
                    /\ lastOp' = Op("next", 0, NoThrow, r)
                    /\ inflight' = [inflight EXCEPT !.flights = Without(@, i)]
           ELSE LET index == w1.state.currentStepIndex + 1
                    r == Pending(goToStepEnter(w1, index))
                IN  /\ SettleEngine(r)
                    /\ lastOp' = Op("next", index, NoThrow, r)
                    /\ inflight' = [inflight EXCEPT
                                      !.flights[i] = Flight("beforeStep", index,
                                                            Null),
                                      !.lastStarted = index]

\* The rest of goToStep, from the element wait on.
FinishGoToStep(i, w) ==
  LET flight == inflight.flights[i]
      r == Resolved(goToStepFinish(w, config, flight.index))
  IN  /\ SettleEngine(r)
      /\ lastOp' = Op("goToStep", flight.index, NoThrow, r)
      /\ inflight' = [inflight EXCEPT
                        !.flights = Without(@, i),
                        !.lastSettled = flight.index,
                        !.changedAfterStop = @ \/ inflight.stopped]

\* step.beforeStep() of a suspended goToStep settles (a rejection is caught
\* and logged): the call waits for the step's element if the step asks for
\* it, and finishes otherwise.
ResumeBeforeStep ==
  \E i \in 1..Len(inflight.flights) :
    \E awaitsElement \in BOOLEAN :
      LET flight == inflight.flights[i]
      IN  /\ flight.pc = "beforeStep"
          /\ observed' = NotTracking
          /\ FlightFrame
          /\ IF awaitsElement
             THEN LET r == Pending(World)
                  IN  /\ SettleEngine(r)
                      /\ lastOp' = Op("goToStep", flight.index, NoThrow, r)
                      /\ inflight' = [inflight EXCEPT !.flights[i].pc = "wait"]
             ELSE FinishGoToStep(i, World)

\* waitForElement of a suspended goToStep settles (a timeout is caught and
\* logged).
ResumeWait ==
  \E i \in 1..Len(inflight.flights) :
    /\ inflight.flights[i].pc = "wait"
    /\ observed' = NotTracking
    /\ FlightFrame
    /\ FinishGoToStep(i, World)

\* stop(), which has no await.
StopInFlight ==
  LET r == stop(World)
  IN  /\ SettleEngine(r)
      /\ lastOp' = Op("stop", 0, NoThrow, r)
      /\ observed' = NotTracking
      /\ inflight' = [inflight EXCEPT
                        !.stopped = @ \/ \E i \in 1..Len(inflight.flights) :
                                           InGoToStep(inflight.flights[i])]
      /\ FlightFrame

\* skip(), whose only await is that of stop() at its end.
SkipInFlight ==
  LET r == skip(World, config, NoThrow)
  IN  /\ SettleEngine(r)
      /\ lastOp' = Op("skip", 0, NoThrow, r)
      /\ observed' = NotTracking
      /\ inflight' = [inflight EXCEPT
                        !.stopped = @ \/ (/\ state.isRunning
                                          /\ \E i \in 1..Len(inflight.flights) :
                                               InGoToStep(inflight.flights[i]))]
      /\ FlightFrame

\* A first engine on a tour of MaxSteps steps.
FlightInit == InitWith({c \in Configs : c.n = MaxSteps})

FlightTransition ==
  \/ BeginStart
  \/ BeginNext
  \/ BeginPrevious
  \/ BeginGoToStep
  \/ ResumeAfterStep
  \/ ResumeBeforeStep
  \/ ResumeWait
  \/ StopInFlight
  \/ SkipInFlight

FlightSpec == FlightInit /\ [][FlightTransition]_vars

-----------------------------------------------------------------------------
(* useTourEngine: the 'next' the React binding hands to the components.  It   *)
(* runs the current step's declared action through TourActions.execute, then  *)
(* engine.next(), both inside handleAsyncError, which calls the whole         *)
(* function again after a failure.  Whether the step declares an action and   *)
(* whether execute throws in each attempt are inputs; binding keeps them.     *)

\* useErrorHandler({ retryAttempts: 1, ... })
RetryAttempts == 1

ActionError == "action error"

\* The function useTourEngine.next passes to handleAsyncError.
nextAttempt(w, cfg, h, hasAction, fails) ==
  LET runs == hasAction /\ w.state.currentStep # Null
      w1 == IF runs THEN call(w, "action") ELSE w
  IN  IF runs /\ fails
      THEN Rejected(w1, ActionError)
      ELSE next(w1, cfg, h)

\* handleAsyncError(asyncFn, context): fails[k] is whether execute throws in
\* attempt k.
RECURSIVE handleAsyncError(_, _, _, _, _, _)
handleAsyncError(w, cfg, h, hasAction, fails, currentRetries) ==
  LET r == nextAttempt(w, cfg, h, hasAction, fails[currentRetries + 1])
  IN  IF r.outcome # "rejected"
      THEN r
      ELSE IF currentRetries < RetryAttempts
      THEN handleAsyncError(r.w, cfg, h, hasAction, fails, currentRetries + 1)
      ELSE \* return fallback
           Resolved(r.w)

useTourEngineNext(w, cfg, h, hasAction, fails) ==
  handleAsyncError(w, cfg, h, hasAction, fails, 0)

BindingNext ==
  \E hasAction \in BOOLEAN, fails \in [1..(RetryAttempts + 1) -> BOOLEAN] :
    \E h \in HooksOf({"lifecycle"}) :
      LET r == useTourEngineNext(World, config, h, hasAction, fails)
      IN  /\ SettleEngine(r)
          /\ lastOp' = Op("useTourEngine.next", 0, h, r)
          /\ observed' = NotTracking
          /\ binding' = [hasAction |-> hasAction, fails |-> fails]
          /\ UNCHANGED <<dom, elementWait, dispatcher, popover, inflight>>

\* A first engine without persistence, driven through the binding.
BindingInit == InitWith({c \in Configs : ~c.remember})

BindingTransition ==
  \/ Start
  \/ BindingNext
  \/ Previous
  \/ Stop

BindingSpec == BindingInit /\ [][BindingTransition]_vars

-----------------------------------------------------------------------------
(* The claims *)

\* The top-level state of the engine: running = isRunning, completed =
\* isCompleted, skipped = isSkipped, idle otherwise.
StateClass(st) ==
  IF st.isRunning THEN "running"
  ELSE IF st.isCompleted THEN "completed"
  ELSE IF st.isSkipped THEN "skipped"
  ELSE "idle"

IsLastStep(st) == st.currentStepIndex >= st.totalSteps - 1

\* C1: isCompleted and isSkipped are never both true for the same engine.
C1_MutualExclusion == ~(state.isCompleted /\ state.isSkipped)

\* C2: every change of the top-level state made by a public operation is one
\* of the listed edges: idle -> running by start, running -> completed by
\* next on the last step, running -> skipped by skip, running -> idle by stop,
\* any -> idle by resetTourState.
C2_OnlyListedEdges ==
  [][(lastOp'.name # "construct" /\ StateClass(state') # StateClass(state)) =>
       LET from == StateClass(state)
           to == StateClass(state')
           op == lastOp'.name
       IN  \/ from = "idle" /\ to = "running" /\ op = "start"
           \/ from = "running" /\ to = "completed" /\ op = "next" /\ IsLastStep(state)
           \/ from = "running" /\ to = "skipped" /\ op = "skip"
           \/ from = "running" /\ to = "idle" /\ op = "stop"
           \/ to = "idle" /\ op = "resetTourState"]_vars

\* C3: a terminal marker implies that the engine is stopped.
C3_TerminalImpliesStopped ==
  (state.isCompleted \/ state.isSkipped) => ~state.isRunning

\* C4: 0 <= currentStepIndex < totalSteps in every state, from construction on.
C4_IndexInBounds ==
  0 <= state.currentStepIndex /\ state.currentStepIndex < state.totalSteps

\* The indices 0, 1, ..., n-1 seen after start and the first n-1 calls of
\* next, and n-1 again after the n-th call, which completes the tour.
WalkIndices(n) == [i \in 1..(n + 1) |-> IF i <= n THEN i - 1 ELSE n - 1]

WalkDone == observed.tracking /\ observed.started /\ observed.nexts = state.totalSteps

\* C5: on an engine that restored no snapshot, start() and then n awaited
\* calls of next() take currentStepIndex through 0, 1, ..., n-1 in order and
\* end with isCompleted = true and isRunning = false.
C5_WalkVisitsEveryIndexAndCompletes ==
  WalkDone =>
    /\ observed.indices = WalkIndices(state.totalSteps)
    /\ state.isCompleted
    /\ ~state.isRunning

C5_Witness ==
  WalkDone /\ state.totalSteps = MaxScenarioSteps /\ lastOp.stepHookThrew

WalkEvents(n) ==
  <<(<<"tour-start">>)>>
    \o [i \in 1..n |-> <<"step-change", i - 1>>]
    \o <<(<<"tour-complete">>)>>

ExpectedStartIndex ==
  IF config.remember /\ storage # Null
  THEN Field(storage, "currentStepIndex", 0)
  ELSE 0

\* C7: start() on a freshly constructed engine resolves with isRunning = true
\* and currentStepIndex = 0, or the persisted index when remember is set and
\* a snapshot exists.
C7_StartOnFreshEngine ==
  [][(lastOp.name = "construct" /\ lastOp'.name = "start") =>
       /\ lastOp'.outcome = "resolved"
       /\ state'.isRunning
       /\ state'.currentStepIndex = ExpectedStartIndex]_vars

StepChanges(events) == SelectSeq(events, LAMBDA e : e[1] = "step-change")

\* The same call with every step hook returning normally.
CalmRun(op) ==
  LET h == [NoThrow EXCEPT !.lifecycle = op.lifecycleThrew]
  IN  CASE op.name = "start" -> start(World, config, h)
        [] op.name = "next" -> next(World, config, h)
        [] op.name = "previous" -> previous(World, config, h)
        [] op.name = "goToStep" -> goToStep(World, config, op.index, h)

C9_SkipSurvivesOnSkipFailure ==
  (lastOp.name = "skip" /\ lastOp.lifecycleThrew) =>
    /\ state.isSkipped
    /\ ~state.isRunning
    /\ (config.remember => ~shouldShowTour(config, storage))

\* C10: if onComplete throws, complete() still ends with isCompleted = true,
\* isRunning = false and, when remember is set, shouldShowTour() false.
C10_CompleteSurvivesOnCompleteFailure ==
  (lastOp.name = "complete" /\ lastOp.lifecycleThrew) =>
    /\ state.isCompleted
    /\ ~state.isRunning
    /\ (config.remember => ~shouldShowTour(config, storage))

\* The call `name` made on the live engine, configured as cfg, with hooks h.
Run(name, index, cfg, h) ==
  CASE name = "start" -> start(World, cfg, h)
    [] name = "next" -> next(World, cfg, h)
    [] name = "previous" -> previous(World, cfg, h)
    [] name = "goToStep" -> goToStep(World, cfg, index, h)
    [] name = "skip" -> skip(World, cfg, h)
    [] name = "complete" -> complete(World, cfg, h)
    [] name = "stop" -> stop(World)
    [] name = "resetTourState" -> resetTourState(World, cfg)

ErrorEvents(events) == SelectSeq(events, LAMBDA e : e[1] = "error")

\* C11: a throwing hook (beforeStep, afterStep, onStepChange, onSkip,
\* onComplete) never rejects the operation, never causes an error event and
\* never sets state.error: the operation settles, reports errors and leaves
\* state.error exactly as the same call whose hooks all return normally.
C11_HookFailureIsAbsorbed ==
  [][(lastOp'.stepHookThrew \/ lastOp'.lifecycleThrew) =>
       LET r == Run(lastOp'.name, lastOp'.index, config, NoThrow)
       IN  /\ lastOp'.outcome = r.outcome
           /\ state'.error = r.w.state.error
           /\ ErrorEvents(emitted') = ErrorEvents(r.w.emitted)]_vars

\* C12: goToStep(i) with i outside [0, totalSteps) rejects with the
\* out-of-range error and leaves the engine state and the persisted snapshot
\* as they were.
C12_InvalidIndexChangesNothing ==
  [][(/\ lastOp'.name = "goToStep"
      /\ (lastOp'.index < 0 \/ lastOp'.index >= state.totalSteps)) =>
       /\ lastOp'.outcome = "rejected"
       /\ goToStep(World, config, lastOp'.index, NoThrow).error = InvalidIndexError
       /\ state' = state
       /\ storage' = storage]_vars

C12_Witness ==
  /\ lastOp.name = "goToStep"
  /\ lastOp.outcome = "rejected"
  /\ lastOp.index = state.totalSteps
  /\ state.isRunning
  /\ state.completedSteps # <<>>
  /\ config.remember
  /\ storage # Null

\* C13: an operation rejected for a structural error (an invalid index given
\* to goToStep, next() with no current step; the engine rejects for nothing
\* else) has emitted an error event and has left isLoading = false.
C13_StructuralErrorIsReported ==
  lastOp.outcome = "rejected" =>
    /\ Emitted(emitted, "error")
    /\ ~state.isLoading

SkipPersisted ==
  /\ storage # Null
  /\ Field(storage, "isSkipped", FALSE) = TRUE
  /\ Field(storage, "skippedAt", Undefined) = Timestamp
  /\ ~shouldShowTour(config, storage)

\* C14: skip() on a running tour ends with isSkipped = true and isRunning =
\* false; with remember set the snapshot then has isSkipped = true and a
\* skippedAt timestamp, and shouldShowTour() returns false.
C14_SkipEndsAndPersists ==
  (lastOp.name = "skip" /\ lastOp.outcome = "resolved") =>
    /\ state.isSkipped
    /\ ~state.isRunning
    /\ (config.remember => SkipPersisted)

\* The state of an engine constructed from cfg with nothing persisted.
FreshState(cfg) ==
  [isRunning |-> FALSE, currentStepIndex |-> 0, currentStep |-> Null,
   totalSteps |-> cfg.n, isLoading |-> FALSE, error |-> NoError,
   completedSteps |-> <<>>, skippedSteps |-> <<>>,
   isCompleted |-> FALSE, isSkipped |-> FALSE,
   completedAt |-> Undefined, skippedAt |-> Undefined]

\* C15: after resetTourState() the persisted snapshot is gone, the engine
\* state is that of a newly constructed engine without prior progress, and
\* shouldShowTour() returns true.
C15_ResetRestoresFreshEngine ==
  lastOp.name = "resetTourState" =>
    /\ (config.remember => storage = Null)
    /\ state = FreshState(config)
    /\ shouldShowTour(config, storage)

C15_Witness ==
  /\ lastOp.name = "resetTourState"
  /\ config.remember
  /\ state.totalSteps = MaxSteps

\* The snapshot is absent, or has neither isCompleted = true nor isSkipped =
\* true.
SnapshotAllowsTour ==
  \/ storage = Null
  \/ /\ ~("isCompleted" \in DOMAIN storage /\ storage.isCompleted = TRUE)
     /\ ~("isSkipped" \in DOMAIN storage /\ storage.isSkipped = TRUE)

\* C16: shouldShowTour() returns true whenever persistence is disabled; with
\* persistence enabled it returns true exactly when the snapshot is absent or
\* shows neither isCompleted nor isSkipped as true.
C16_ShouldShowTour ==
  shouldShowTour(config, storage) = (~config.remember \/ SnapshotAllowsTour)

\* A tour skipped after progress was saved: the snapshot is there and
\* shouldShowTour() returns false on account of isSkipped alone.
C16_Witness ==
  /\ config.remember
  /\ storage # Null
  /\ "isCompleted" \in DOMAIN storage
  /\ ~storage.isCompleted
  /\ storage.isSkipped
  /\ ~shouldShowTour(config, storage)

\* C17: with remember set, after goToStep(i) has resolved, an engine
\* constructed from the same definition and storage key starts with
\* currentStepIndex = i.
C17_GoToStepRoundTrip ==
  [][(/\ lastOp.name = "goToStep"
      /\ lastOp.outcome = "resolved"
      /\ config.remember
      /\ lastOp'.name = "construct"
      /\ config' = config) =>
       state'.currentStepIndex = lastOp.index]_vars

\* The new engine after goToStep(n - 1) on the longest tour (goToStep(2) on
\* a tour of three steps).
C17_Witness ==
  /\ lastOp.name = "construct"
  /\ config.remember
  /\ config.n = MaxRoundTripSteps
  /\ storage # Null
  /\ storage.currentStepIndex = MaxRoundTripSteps - 1
  /\ state.currentStepIndex = MaxRoundTripSteps - 1
  /\ ~state.isRunning

SnapshotMatchesState ==
  /\ storage # Null
  /\ Field(storage, "currentStepIndex", Undefined) = state.currentStepIndex
  /\ Field(storage, "completedSteps", Undefined) = state.completedSteps
  /\ Field(storage, "skippedSteps", Undefined) = state.skippedSteps

\* C18: with remember set, once start, next, previous, goToStep or skip has
\* settled (the final next() that completes the tour included), the
\* snapshot's currentStepIndex, completedSteps and skippedSteps equal the
\* engine's.
C18_SnapshotMatchesState ==
  (/\ config.remember
   /\ lastOp.name \in {"start", "next", "previous", "goToStep", "skip"}
   /\ lastOp.outcome = "resolved") =>
    SnapshotMatchesState

\* The calls that can be made on the engine, each with the hooks it runs.
Calls ==
  UNION {
    [name : {"start", "previous"}, index : {0},
     h : HooksOf({"beforeStep", "onStepChange", "elementMissing"})],
    [name : {"next"}, index : {0},
     h : HooksOf({"beforeStep", "afterStep", "onStepChange", "lifecycle",
                  "elementMissing"})],
    [name : {"goToStep"}, index : -1..MaxSteps,
     h : HooksOf({"beforeStep", "onStepChange", "elementMissing"})],
    [name : {"skip", "complete"}, index : {0}, h : HooksOf({"lifecycle"})],
    [name : {"stop", "resetTourState"}, index : {0}, h : {NoThrow}] }

PersistenceOff == [config EXCEPT !.remember = FALSE]

\* C19: when every localStorage access throws, the engine with remember set
\* is constructed in the state of, and each of its operations settles as,
\* ends in the same engine state as and emits the same events as the same
\* operation of the engine with persistence disabled.
C19_StorageOutageIsInvisible ==
  (config.remember /\ storage = Unavailable) =>
    /\ initializeState(config, storage) = initializeState(PersistenceOff, storage)
    /\ shouldShowTour(config, storage) = shouldShowTour(PersistenceOff, storage)
    /\ \A c \in Calls :
         LET on == Run(c.name, c.index, config, c.h)
             off == Run(c.name, c.index, PersistenceOff, c.h)
         IN  /\ on.outcome = off.outcome
             /\ on.error = off.error
             /\ on.w.state = off.w.state
             /\ on.w.emitted = off.w.emitted

\* The tour was walked to its end on the failing store.
C19_Witness ==
  /\ config.remember
  /\ storage = Unavailable
  /\ lastOp.name = "next"
  /\ state.isCompleted
  /\ Len(state.completedSteps) = MaxSteps

C21_WaitResolvesAtMutation ==
  [][(elementWait.phase = "pending" /\ ~dom /\ dom') => elementWait'.phase = "resolved"]_vars

\* C22: no observer and no timer of a wait is live once the wait has settled
\* (match or timeout) or the tour has been stopped while it was pending.
C22_NoObserverOutlivesWait ==
  (elementWait.phase # "pending" \/ elementWait.stopped) => (~elementWait.observer /\ ~elementWait.timer)

WasExecuted == dispatcher.result # NoExecution

\* The names of the registered integrations whose canHandle accepts the
\* executed action.
Claimants ==
  {dispatcher.integrations[i].name : i \in
     {j \in 1..Len(dispatcher.integrations) :
        dispatcher.action.type \in dispatcher.integrations[j].claims}}

Position(seq, x) == CHOOSE i \in 1..Len(seq) : seq[i] = x

IntegrationNamed(name) ==
  dispatcher.integrations[CHOOSE i \in 1..Len(dispatcher.integrations) :
                            dispatcher.integrations[i].name = name]

\* The one integration of `order` (a list of names) that is to be invoked,
\* and what execute must then have run.
RunsFirstOf(order) ==
  IF Claimants = {}
  THEN dispatcher.result.ran = <<"default">>
  ELSE LET first == CHOOSE n \in Claimants :
                      \A m \in Claimants : Position(order, n) <= Position(order, m)
       IN  /\ dispatcher.result.ran[1] = first
           /\ \A i \in 2..Len(dispatcher.result.ran) :
                dispatcher.result.ran[i] = "default"
           /\ (~IntegrationNamed(first).throws => dispatcher.result.ran = <<first>>)

\* C23: execute(action) invokes exactly one integration, the one registered
\* earliest among those whose canHandle accepts the action, and does not run
\* the default handler when that call succeeds; when no integration accepts
\* the action only the default handler runs.
C23_EarliestRegisteredClaimant ==
  WasExecuted => RunsFirstOf(dispatcher.registered)

\* C23 as the code has it: the integration invoked is the first claimant in
\* the order of the registry, where a name registered again keeps the place
\* of its first registration.
C23_FirstClaimantInRegistryOrder ==
  WasExecuted =>
    RunsFirstOf([i \in 1..Len(dispatcher.integrations) |->
                   dispatcher.integrations[i].name])

\* Two registered integrations accept the action; the first one succeeds.
C23_Witness ==
  /\ WasExecuted
  /\ Claimants = IntegrationNames
  /\ dispatcher.action.type = "custom-foo"
  /\ dispatcher.result.ran = <<dispatcher.integrations[1].name>>
  /\ dispatcher.registered # <<dispatcher.integrations[1].name,
                                dispatcher.integrations[2].name>>

Selected == findIntegration(dispatcher.integrations, dispatcher.action)

\* C24: if the selected integration's execute throws, execute(action) runs
\* the default handler for the action's type (for the unknown type
\* "custom-foo" the warning path, which does nothing else) and does not
\* pass the integration's failure on to its caller.
C24_FallbackAfterIntegrationFailure ==
  (WasExecuted /\ Claimants # {} /\ Selected.throws) =>
    LET r == dispatcher.result
        d == executeDefault(dispatcher.action, 0)
    IN  /\ r.ran = <<Selected.name, "default">>
        /\ r.effects = <<Effect("integration", 0)>> \o d.effects
        /\ r.outcome = d.outcome
        /\ r.error # IntegrationError
        /\ (dispatcher.action.type = "custom-foo" =>
              /\ r.outcome = "resolved"
              /\ r.effects = <<Effect("integration", 0),
                               Effect("warn", dispatcher.action.delay)>>)

C24_Witness ==
  /\ WasExecuted
  /\ dispatcher.action.type = "custom-foo"
  /\ Claimants # {}
  /\ Selected.throws
  /\ dispatcher.result.outcome = "resolved"
  /\ dispatcher.result.ran = <<Selected.name, "default">>

\* C25: when the default click handler cannot resolve its target, the error
\* reaches the caller of execute only if no integration claimed the action;
\* behind a failed integration it is caught inside execute.
C25_ClickErrorCaughtBehindIntegration ==
  (/\ WasExecuted
   /\ dispatcher.action.type = "click"
   /\ ~dispatcher.action.ok
   /\ dispatcher.result.ran[Len(dispatcher.result.ran)] = "default") =>
    (dispatcher.result.outcome = "rejected" <=> Claimants = {})

IsActionEffect(e) == e.what \in {"integration", "click", "navigate", "handler"}

\* C26: with action.delay = d > 0, nothing the action does (integration
\* execute, click, navigation, custom handler) happens before d milliseconds
\* have passed since execute was called.
C26_DelayBeforeAnyEffect ==
  (WasExecuted /\ dispatcher.action.delay > 0) =>
    \A i \in 1..Len(dispatcher.result.effects) :
      IsActionEffect(dispatcher.result.effects[i]) =>
        dispatcher.result.effects[i].at >= dispatcher.action.delay

Positioned == popover # NoPopover /\ popover.position # NoPopover

\* The popover placed at candidate c lies inside the viewport shrunk by the
\* margin on all four sides (doubled lengths).
FitsViewport(c, in) ==
  LET x0 == 2 * (in.scrollLeft + Margin)
      x1 == 2 * (in.scrollLeft + ViewportSize - Margin)
      y0 == 2 * (in.scrollTop + Margin)
      y1 == 2 * (in.scrollTop + ViewportSize - Margin)
  IN  /\ x0 <= c.left2 /\ c.left2 + 2 * in.popoverWidth <= x1
      /\ y0 <= c.top2 /\ c.top2 + 2 * in.popoverHeight <= y1

\* The candidates before q in the fallback order, the preferred one left out.
TriedBefore(q, preferred) ==
  {fallbackOrder[j] : j \in 1..(Position(fallbackOrder, q) - 1)} \ {preferred}

\* C27: calculatePopoverPosition returns one of its five candidates: the
\* preferred one if it fits the viewport shrunk by the margin, else the first
\* of bottom, top, right, left, center (the preferred one skipped) that fits,
\* else center.
C27_PlacementChoice ==
  Positioned =>
    LET in == popover.in
        candidates == positions(in)
        chosen == popover.position
        pref == in.preferredPlacement
    IN  /\ \E q \in Placements : chosen = candidates[q]
        /\ IF FitsViewport(candidates[pref], in)
           THEN chosen = candidates[pref]
           ELSE IF \E q \in Placements \ {pref} : FitsViewport(candidates[q], in)
           THEN /\ chosen.placement # pref
                /\ FitsViewport(chosen, in)
                /\ \A q \in TriedBefore(chosen.placement, pref) :
                     ~FitsViewport(candidates[q], in)
           ELSE chosen = candidates.center

\* The preferred placement and the three fallbacks before "left" do not fit;
\* "left" is chosen.
C27_Witness ==
  /\ Positioned
  /\ popover.in.preferredPlacement = "top"
  /\ popover.position.placement = "left"
  /\ FitsViewport(popover.position, popover.in)

\* C29: stop() sets isRunning to FALSE and currentStep to null and changes no
\* other state field and nothing in storage; the start() that follows it
\* resolves on the step at the index stop() left.
C29_StopKeepsProgress ==
  [][/\ lastOp'.name = "stop" =>
          /\ state' = [state EXCEPT !.isRunning = FALSE, !.currentStep = Null]
          /\ storage' = storage
          /\ emitted' = <<>>
     /\ (lastOp.name = "stop" /\ lastOp'.name = "start") =>
          /\ lastOp'.outcome = "resolved"
          /\ state'.isRunning
          /\ state'.currentStepIndex = state.currentStepIndex
          /\ state'.currentStep = StepAt(state.currentStepIndex)]_vars

\* The guard of previous(): the engine is not running or is on the first
\* step.
PreviousIsNoOp == ~state.isRunning \/ state.currentStepIndex <= 0

\* C30: previous() on an engine that is not running or is on the first step
\* returns at once: state and storage are as before and nothing is emitted;
\* otherwise it resolves on the step at currentStepIndex - 1.
C30_PreviousGuard ==
  [][lastOp'.name = "previous" =>
       IF PreviousIsNoOp
       THEN /\ lastOp'.outcome = "noop"
            /\ state' = state
            /\ storage' = storage
            /\ emitted' = <<>>
       ELSE /\ lastOp'.outcome = "resolved"
            /\ state'.currentStepIndex = state.currentStepIndex - 1
            /\ state'.currentStep = StepAt(state.currentStepIndex - 1)
            /\ state'.isRunning]_vars

\* previous() returned at once on a stopped engine that is past the first
\* step.
C30_Witness ==
  /\ lastOp.name = "previous"
  /\ lastOp.outcome = "noop"
  /\ ~state.isRunning
  /\ state.currentStepIndex > 0

\* previous() went back from the second step to the first.
C30_WentBack ==
  /\ lastOp.name = "previous"
  /\ lastOp.outcome = "resolved"
  /\ state.isRunning
  /\ state.currentStepIndex = 0
  /\ state.currentStep = StepAt(0)

\* The types of the events in a list of [event, state] deliveries or of
\* emitted events.
DeliveredTypes(received) == [i \in 1..Len(received) |-> received[i].event]

EmittedTypes(events) == [i \in 1..Len(events) |-> events[i][1]]

IsStateChange(delivery) == delivery.event = "state-change"

IsOtherEvent(delivery) == delivery.event # "state-change"

\* The state the engine held when delivery i was made: that of the latest
\* state-change before it, or the state before the operation.
StateAt(received, i, before) ==
  LET changes == {j \in 1..i : IsStateChange(received[j])}
  IN  IF changes = {}
      THEN before
      ELSE received[CHOOSE j \in changes : \A k \in changes : k <= j].state

\* C28: while cb is subscribed a call of an operation invokes cb once for each
\* event the call emits, of each of the six types, in order, with the state
\* of the engine at that moment, the last of them with the state the call
\* leaves; once unsubscribed cb is not invoked.
C28_SubscribeDelivers ==
  [][/\ subscriber'.listening = {} => subscriber'.received = <<>>
     /\ (subscriber.listening # {} /\ subscriber'.listening # {}) =>
          LET received == subscriber'.received
          IN  /\ subscriber'.listening = EventTypes
              /\ DeliveredTypes(SelectSeq(received, IsOtherEvent))
                   = EmittedTypes(emitted')
              /\ \A i \in 1..Len(received) :
                   received[i].state = StateAt(received, i, state)
              /\ received # <<>> => received[Len(received)].state = state']_vars

\* cb was called for a state-change, a tour-start and a step-change of one
\* start().
C28_Witness ==
  /\ subscriber.listening = EventTypes
  /\ lastOp.name = "start"
  /\ \A type \in {"state-change", "tour-start", "step-change"} :
       \E i \in 1..Len(subscriber.received) : subscriber.received[i].event = type

\* An operation that emits ran after the unsubscribe function was called.
C28_Unsubscribed ==
  /\ subscriber.listening = {}
  /\ subscriber.received = <<>>
  /\ emitted # <<>>
  /\ lastOp.name = "start"

\* The world a call finds that is made once the call with result r has
\* settled.
After(r) ==
  [r.w EXCEPT !.emitted = <<>>, !.elapsed = 0, !.received = <<>>,
              !.calls = <<>>]

StepHooks == HooksOf({"beforeStep", "onStepChange", "elementMissing"})

\* C31: in every reachable state and for every index of the tour, goToStep(i)
\* followed by goToStep(i) leaves the engine state and the persisted item that
\* one goToStep(i) leaves, whether the hooks and the element wait of the step
\* fail or not; and goToStep leaves completedSteps as it found it.
C31_GoToStepIdempotent ==
  \A index \in 0..(state.totalSteps - 1) :
    \A h \in StepHooks :
      LET once == goToStep(World, config, index, h)
          twice == goToStep(After(once), config, index, h)
      IN  /\ once.outcome = "resolved"
          /\ twice.outcome = "resolved"
          /\ twice.w.state = once.w.state
          /\ twice.w.storage = once.w.storage
          /\ once.w.state.completedSteps = state.completedSteps

\* goToStep(1) was called twice in succession on a tour with a completed step
\* and a persisted item.
C31_Witness ==
  /\ lastOp.name = "goToStep"
  /\ lastOp.index = 1
  /\ lastOp.outcome = "resolved"
  /\ state.currentStepIndex = 1
  /\ state.completedSteps # <<>>
  /\ config.remember
  /\ goToStep(World, config, 1, NoThrow).w.state = state
  /\ goToStep(World, config, 1, NoThrow).w.storage = storage

IsPrefix(s, t) == Len(s) <= Len(t) /\ SubSeq(t, 1, Len(s)) = s

NoDuplicates(s) == \A i, j \in 1..Len(s) : s[i] = s[j] => i = j

\* C32: an operation other than the construction of an engine and
\* resetTourState() only appends to completedSteps and skippedSteps, and
\* neither list ever holds a step identifier twice.
C32_ProgressListsOnlyGrow ==
  [][/\ lastOp'.name \notin {"construct", "resetTourState"} =>
          /\ IsPrefix(state.completedSteps, state'.completedSteps)
          /\ IsPrefix(state.skippedSteps, state'.skippedSteps)
     /\ NoDuplicates(state'.completedSteps)
     /\ NoDuplicates(state'.skippedSteps)]_vars

\* previous() went back on a tour with a completed step and left the list
\* as it was.
C32_Witness ==
  /\ lastOp.name = "previous"
  /\ lastOp.outcome = "resolved"
  /\ state.currentStepIndex = 0
  /\ state.completedSteps # <<>>

\* How often a hook was called by the last operation.
TimesCalled(hook) == Len(SelectSeq(lastOp.calls, LAMBDA c : c = hook))

\* C33: a start() that emits tour-start calls config.onStart once.
C33_StartCallsOnStart ==
  (lastOp.name = "start" /\ Emitted(emitted, "tour-start")) =>
    TimesCalled("onStart") = 1

\* C34: the index the engine stands on and the persisted index are those of
\* the goToStep call that settled last, whichever call began last: two
\* overlapping calls that settle in the order opposite to the one they began
\* in leave the index of the call that began first.
C34_LastSettledWins ==
  inflight.lastSettled # -1 =>
    /\ state.currentStepIndex = inflight.lastSettled
    /\ config.remember =>
         StorageGetState(storage).currentStepIndex = inflight.lastSettled

\* Every call has settled, and the engine and the persisted item are on the
\* index of a goToStep that began before the one begun last.
C34_Witness ==
  /\ inflight.flights = <<>>
  /\ inflight.lastStarted # -1
  /\ inflight.lastSettled # -1
  /\ inflight.lastSettled # inflight.lastStarted
  /\ lastOp.name = "goToStep"
  /\ state.currentStepIndex = inflight.lastSettled
  /\ config.remember
  /\ StorageGetState(storage).currentStepIndex = inflight.lastSettled

\* C35: isLoading is set only on a running engine, also while calls are
\* suspended at a hook or an element wait.
C35_LoadingImpliesRunning == state.isLoading => state.isRunning

\* How often a hook is among the calls made up to some moment.
CallsOf(calls, hook) == Len(SelectSeq(calls, LAMBDA c : c = hook))

\* The deliveries of step-change among the first i calls of the callback.
StepChangesUpTo(received, i) ==
  Cardinality({j \in 1..i : received[j].event = "step-change"})

\* C36: at every delivery of step-change(i) the state has currentStepIndex =
\* i, currentStep = steps[i] and isLoading = FALSE; with remember the
\* localStorage item holds index i; beforeStep of the step was the last hook
\* called and the element wait, if the element is missing, has run out;
\* onStepChange was not yet called for this entry and is called once after it.
C36_StepEntryOrder ==
  LET received == subscriber.received
  IN  \A k \in 1..Len(received) :
        received[k].event = "step-change" =>
          LET at == received[k]
              i == at.data[2]
          IN  /\ at.state.currentStepIndex = i
              /\ at.state.currentStep = StepAt(i)
              /\ ~at.state.isLoading
              /\ config.remember =>
                   /\ StorageGetState(at.storage) # Null
                   /\ StorageGetState(at.storage).currentStepIndex = i
              /\ at.calls # <<>>
              /\ at.calls[Len(at.calls)] = "beforeStep"
              /\ lastOp.elementMissing => at.elapsed = DefaultWaitTimeout
              /\ CallsOf(at.calls, "onStepChange") = StepChangesUpTo(received, k) - 1
              /\ CallsOf(lastOp.calls, "onStepChange")
                   = StepChangesUpTo(received, Len(received))

\* step-change(1) was delivered to the subscriber of a tour that persists
\* its progress, after a wait for an element that never came.
C36_Witness ==
  /\ config.remember
  /\ lastOp.elementMissing
  /\ \E k \in 1..Len(subscriber.received) :
       /\ subscriber.received[k].event = "step-change"
       /\ subscriber.received[k].data[2] = 1

\* C37: with remember, once the completion or skip marker is persisted
\* (shouldShowTour() is FALSE), shouldShowTour() stays FALSE through every
\* operation other than resetTourState().
C37_TerminalMarkerPersists ==
  [][(/\ config.remember
      /\ ~shouldShowTour(config, storage)
      /\ lastOp'.name # "resetTourState") =>
       ~shouldShowTour(config', storage')]_vars

\* C38: when stop() (also that of skip()) ran while a goToStep was suspended
\* and every call has settled since, no other call having begun, the engine
\* is not running, currentStep is null and no step-change was emitted after
\* the stop.
C38_StopWinsOverSuspendedEntry ==
  (inflight.stopped /\ inflight.flights = <<>>) =>
    /\ ~state.isRunning
    /\ state.currentStep = Null
    /\ ~inflight.changedAfterStop

\* C39: an operation that changes the state of an engine with a subscriber
\* delivers state-change, and the last state-change it delivers carries the
\* state it leaves.
C39_EveryChangeIsAnnounced ==
  [][(/\ subscriber.listening = EventTypes
      /\ subscriber'.listening = EventTypes
      /\ state' # state) =>
       LET changes == SelectSeq(subscriber'.received, IsStateChange)
       IN  /\ changes # <<>>
           /\ changes[Len(changes)].state = state']_vars

\* C40: one 'next' intent through useTourEngine executes the step's action at
\* most once and moves the index forward by at most one; when the action's
\* first execution fails the index stays and the action is not executed
\* again.
C40_NextIntentRunsActionOnce ==
  [][lastOp'.name = "useTourEngine.next" =>
       LET executed == CallsOf(lastOp'.calls, "action")
           failed == /\ binding'.hasAction
                     /\ state.isRunning
                     /\ state.currentStep # Null
                     /\ binding'.fails[1]
       IN  /\ executed <= 1
           /\ state'.currentStepIndex <= state.currentStepIndex + 1
           /\ failed => state'.currentStepIndex = state.currentStepIndex]_vars

====
